---- MODULE Spec2Model ----
(***************************************************************************)
(* Model of the heilion sidecars.                                          *)
(*                                                                         *)
(*   wake-word-sidecar/wake_service.py      WakeWordService: the client    *)
(*       registry, the two fan-out routines, the capture-and-detect loop.  *)
(*   hubert-llama-sidecar/hubert_llama_service.py   HubertLlamaService:    *)
(*       the request/reply handler of one connection.                      *)
(*                                                                         *)
(* Both services run on a single-threaded asyncio event loop: the code     *)
(* between two awaits is one atomic step, and every `await x.send(..)` is  *)
(* a suspension point at which any other ready task may run.               *)
(*                                                                         *)
(* Units: time is in whole seconds (cooldown 3.0 -> 3); a confidence is in *)
(* tenths (threshold 0.5 -> 5).                                            *)
(***************************************************************************)
EXTENDS Integers, Sequences, FiniteSets, TLC

(* ------------------------------ bounds -------------------------------- *)
MaxClients == 2        \* connections the wake-word server accepts in a run
MaxElapsed == 1        \* seconds of wall clock a run covers
CooldownClients == 1   \* connections accepted in a run of the cooldown scenario
CooldownElapsed == 4   \* seconds of wall clock a cooldown run covers
EpochElapsed == 4      \* seconds a run with the clock at the epoch covers
MaxMessages == 2       \* requests a speech-understanding connection carries
MaxAudioTasks == 1     \* detached broadcast_audio tasks alive at once

Conns == 1..MaxClients
Frames == {"f1"}             \* contents a capture read can return
ConfLevels == {0, 5, 9}            \* detector confidences, in tenths
ScoredKeys == {"hey_leo", "hey_virgo"}   \* keys the detector may report
\* keys of the outputs detect_wake_word is called on by itself: the first, a
\* middle and the last persona, and a label that is no persona's
DetectKeys == {"hey_aries", "hey_leo", "hey_pisces", "hey_jarvis"}

(* --------------------------- program constants ------------------------ *)
None == "None"

PERSONAS ==
  <<"Aries", "Taurus", "Gemini", "Cancer", "Leo", "Virgo",
    "Libra", "Scorpio", "Sagittarius", "Capricorn", "Aquarius", "Pisces">>

WAKE_PHRASES ==
  <<"Hey Aries", "Hey Taurus", "Hey Gemini", "Hey Cancer", "Hey Leo",
    "Hey Virgo", "Hey Libra", "Hey Scorpio", "Hey Sagittarius",
    "Hey Capricorn", "Hey Aquarius", "Hey Pisces">>

\* phrase.lower().replace(' ', '_') for the i-th wake phrase
PhraseKey(i) ==
  <<"hey_aries", "hey_taurus", "hey_gemini", "hey_cancer", "hey_leo",
    "hey_virgo", "hey_libra", "hey_scorpio", "hey_sagittarius",
    "hey_capricorn", "hey_aquarius", "hey_pisces">>[i]

Threshold == 5         \* 0.5
cooldown == 3          \* 3.0 seconds
UnixStart == 1000      \* time.time() when the process starts (seconds since
                       \* the epoch; any real value is far above cooldown)

VARIABLES
  oww_available,     \* self.oww_available
  model,             \* self.model: "Model" or None
  stream,            \* self.stream: None, "open" or "closed"
  running,           \* self.running
  clients,           \* self.clients
  mainPc,            \* main(): "init" before the start block, then "serving"
  conn,              \* per connection: "new", "open" or "closed"
  reg,               \* per connection: position of its register_client task
  loopPc,            \* position of the audio_loop task
  last_trigger_time, \* audio_loop local
  trig,              \* the broadcast() call audio_loop awaits, or None
  tasks,             \* detached broadcast_audio tasks, in creation order
  unretrieved,       \* a detached task has ended with an exception
  clock,             \* time.time()
  captured,          \* frames read from the capture stream so far
  accepted,          \* history: the triggers handed to broadcast(), in order
  last_detection,    \* history: the latest persona detect_wake_word returned
  followed,          \* history: how far the detector has followed Scenario
  inbound            \* a client has pushed a message at the endpoint

VARIABLES
  models_loaded,     \* HubertLlamaService.models_loaded
  h_clients,         \* HubertLlamaService.clients
  h_conn,            \* the connection: "new", "open", "peer_closed", "server_closed"
  h_pc,              \* position of its handle_client task
  h_reply,           \* the reply whose send is awaited
  h_log              \* history: each request with the replies delivered for it

VARIABLES
  det_input,         \* detect_wake_word called on its own: what predict did
  det_result         \* and what detect_wake_word returned

hubertVars == <<models_loaded, h_clients, h_conn, h_pc, h_reply, h_log>>

detectVars == <<det_input, det_result>>

wakeVars ==
  <<oww_available, model, stream, running, clients, mainPc, conn, reg,
    loopPc, last_trigger_time, trig, tasks, unretrieved, clock, captured, accepted, last_detection, followed, inbound>>

vars == <<wakeVars, hubertVars, detectVars>>

(* ------------------------------ helpers ------------------------------- *)
Min(S) == CHOOSE x \in S : \A y \in S : x <= y

\* dict.get(key, default)
Get(d, key, default) == IF key \in DOMAIN d THEN d[key] ELSE default

\* the mappings label -> confidence that model.predict can return
Predictions == UNION {[K -> ConfLevels] : K \in SUBSET ScoredKeys}

\* mutant of FirstMatch: a confidence of 0.5 counts as a match
FirstMatch_AtLeast(prediction) ==
  LET hits == {i \in 1..Len(WAKE_PHRASES) :
                 Get(prediction, PhraseKey(i), 0) >= Threshold}
  IN  IF hits = {} THEN None ELSE PERSONAS[Min(hits)]

\* mutant of FirstMatch: the last phrase above 0.5 wins
FirstMatch_Last(prediction) ==
  LET hits == {i \in 1..Len(WAKE_PHRASES) :
                 Get(prediction, PhraseKey(i), 0) > Threshold}
  IN  IF hits = {} THEN None
      ELSE PERSONAS[CHOOSE i \in hits : \A j \in hits : j <= i]

\* the loop over WAKE_PHRASES in detect_wake_word: first phrase above 0.5
FirstMatch(prediction) ==
  LET hits == {i \in 1..Len(WAKE_PHRASES) :
                 Get(prediction, PhraseKey(i), 0) > Threshold}
  IN  IF hits = {} THEN None ELSE PERSONAS[Min(hits)]

\* what model.predict can do: raise, or return a mapping
PredictOutcomes ==
  {[raises |-> TRUE, prediction |-> <<>>]}
  \cup {[raises |-> FALSE, prediction |-> p] : p \in Predictions}

\* detect_wake_word; `outcome` is what model.predict does on the frame
detect_wake_word(mdl, oww, outcome) ==
  IF mdl = None \/ ~oww THEN None
  ELSE IF outcome.raises THEN None
  ELSE FirstMatch(outcome.prediction)

\* mutant of TriggerMessage: the wake phrase is sent in place of the persona
TriggerMessage_Phrase(persona) ==
  [kind |-> "text",
   body |-> [triggered |-> TRUE,
             persona |-> WAKE_PHRASES[CHOOSE i \in 1..Len(PERSONAS) :
                                        PERSONAS[i] = persona]]]

\* json.dumps({'triggered': True, 'persona': persona}) sent as a text frame
TriggerMessage(persona) ==
  [kind |-> "text", body |-> [triggered |-> TRUE, persona |-> persona]]

\* the raw frame sent as a binary frame
AudioMessage(audio_data) == [kind |-> "binary", body |-> audio_data]

(* ----------------- fan-out: broadcast / broadcast_audio --------------- *)
\* A fan-out call suspended in `await client.send(..)`:
\*   msg          what is being sent
\*   iterSet      the registry when the set iterator was created
\*   visited      the clients the iterator has yielded
\*   cur          the client whose send is awaited
\*   disconnected the local set of failed clients
NewCalls(msg) ==
  {[msg |-> msg, iterSet |-> clients, visited |-> {c}, cur |-> c,
    disconnected |-> {}] : c \in clients}

\* the awaited send completes: it raises ConnectionClosed exactly when the
\* connection is closed by then
SendFails(call) == conn[call.cur] # "open"

DisconnectedAfter(call) ==
  IF SendFails(call) THEN call.disconnected \cup {call.cur}
  ELSE call.disconnected

\* next() of the set iterator: RuntimeError when the set's size differs from
\* the size at creation.  With the size unchanged but the members changed the
\* iterator goes on over the mutated table: it may yield any member it has
\* not yielded, or stop early.
IterRaises(call) == Cardinality(clients) # Cardinality(call.iterSet)

IterYields(call) == clients \ call.visited

IterMayStop(call) ==
  \/ IterYields(call) = {}
  \/ clients # call.iterSet

\* what happens when the awaited send of `call` completes and the for loop
\* asks the iterator for the next client
Advance(call) ==
  IF IterRaises(call)
  THEN {[end |-> "raised", call |-> {}, clients |-> clients]}
  ELSE {[end |-> "next",
         call |-> {[call EXCEPT !.visited = @ \cup {c}, !.cur = c,
                                !.disconnected = DisconnectedAfter(call)]},
         clients |-> clients] : c \in IterYields(call)}
       \cup
       (IF IterMayStop(call)
        THEN {[end |-> "done", call |-> {},
               clients |-> clients \ DisconnectedAfter(call)]}
        ELSE {})

\* the one element of a set of at most one element, as a sequence
SetToSeq(S) == IF S = {} THEN <<>> ELSE <<CHOOSE x \in S : TRUE>>

RemoveAt(s, i) == SubSeq(s, 1, i - 1) \o SubSeq(s, i + 1, Len(s))

(* ------------------------------- Init --------------------------------- *)
Init ==
  /\ oww_available \in BOOLEAN
  /\ model = IF oww_available THEN "Model" ELSE None
  /\ stream = None
  /\ running = FALSE
  /\ clients = {}
  /\ mainPc = "init"
  /\ conn = [c \in Conns |-> "new"]
  /\ reg = [c \in Conns |-> "none"]
  /\ loopPc = "none"
  /\ last_trigger_time = 0
  /\ trig = {}
  /\ tasks = <<>>
  /\ unretrieved = FALSE
  /\ clock = UnixStart
  /\ captured = {}
  /\ accepted = <<>>
  /\ last_detection = {}
  /\ followed = 0
  /\ inbound = FALSE
  /\ models_loaded = FALSE
  /\ h_clients = {}
  /\ h_conn = "new"
  /\ h_pc = "none"
  /\ h_reply = {}
  /\ h_log = <<>>
  /\ det_input = {}
  /\ det_result = None

\* the state after construction on a machine whose clock is at the epoch:
\* time.time() starts from 0
InitEpoch ==
  /\ oww_available \in BOOLEAN
  /\ model = IF oww_available THEN "Model" ELSE None
  /\ stream = None
  /\ running = FALSE
  /\ clients = {}
  /\ mainPc = "init"
  /\ conn = [c \in Conns |-> "new"]
  /\ reg = [c \in Conns |-> "none"]
  /\ loopPc = "none"
  /\ last_trigger_time = 0
  /\ trig = {}
  /\ tasks = <<>>
  /\ unretrieved = FALSE
  /\ clock = 0
  /\ captured = {}
  /\ accepted = <<>>
  /\ last_detection = {}
  /\ followed = 0
  /\ inbound = FALSE
  /\ models_loaded = FALSE
  /\ h_clients = {}
  /\ h_conn = "new"
  /\ h_pc = "none"
  /\ h_reply = {}
  /\ h_log = <<>>
  /\ det_input = {}
  /\ det_result = None

(* -------------------- main / start_audio_listening -------------------- *)
\* mutant of start_audio_listening: the flag is set before the device opens
start_audio_listening_FlagFirst(openOk) ==
  IF ~oww_available THEN UNCHANGED <<stream, running>>
  ELSE IF openOk THEN stream' = "open" /\ running' = TRUE
  ELSE stream' = None /\ running' = TRUE

\* start_audio_listening; openOk: whether opening the capture device works
start_audio_listening(openOk) ==
  IF ~oww_available THEN UNCHANGED <<stream, running>>
  ELSE IF openOk THEN stream' = "open" /\ running' = TRUE
  ELSE stream' = None /\ running' = FALSE

\* main(): the server is up; start listening and create the audio_loop task
MainStart ==
  /\ mainPc = "init"
  /\ mainPc' = "serving"
  /\ IF oww_available
     THEN /\ \E openOk \in BOOLEAN : start_audio_listening(openOk)
          /\ loopPc' = "created"
     ELSE UNCHANGED <<stream, running, loopPc>>
  /\ UNCHANGED <<oww_available, model, clients, conn, reg, last_trigger_time,
                 trig, tasks, unretrieved, clock, captured, accepted,
                 last_detection, followed, inbound>>
  /\ UNCHANGED hubertVars
  /\ UNCHANGED detectVars

\* stop() statement by statement: running and stream after each statement
\* that runs.  tearOk: whether stop_stream / close / terminate work; when
\* they raise, the statements after them do not run.
stop_steps(run, str, tearOk) ==
  <<[running |-> FALSE, stream |-> str]>>
  \o (IF str # None /\ tearOk
      THEN <<[running |-> FALSE, stream |-> "closed"]>>
      ELSE <<>>)

\* stop()
stop ==
  /\ mainPc = "serving"
  /\ running
  /\ \E tearOk \in BOOLEAN :
       LET steps == stop_steps(running, stream, tearOk)
       IN  /\ running' = steps[Len(steps)].running
           /\ stream' = steps[Len(steps)].stream
  /\ UNCHANGED <<oww_available, model, clients, mainPc, conn, reg, loopPc,
                 last_trigger_time, trig, tasks, unretrieved, clock,
                 captured, accepted, last_detection, followed, inbound>>
  /\ UNCHANGED hubertVars
  /\ UNCHANGED detectVars

(* --------------------------- register_client -------------------------- *)
\* a client connects: its register_client task adds it and awaits wait_closed
register_client(c) ==
  /\ mainPc = "serving"
  /\ conn[c] = "new"
  /\ \A d \in Conns : d < c => conn[d] # "new"
  /\ conn' = [conn EXCEPT ![c] = "open"]
  /\ reg' = [reg EXCEPT ![c] = "waiting"]
  /\ clients' = clients \cup {c}
  /\ UNCHANGED <<oww_available, model, stream, running, mainPc, loopPc,
                 last_trigger_time, trig, tasks, unretrieved, clock,
                 captured, accepted, last_detection, followed, inbound>>
  /\ UNCHANGED hubertVars
  /\ UNCHANGED detectVars

\* the connection closes (the peer leaves or the network fails)
ConnectionCloses(c) ==
  /\ conn[c] = "open"
  /\ conn' = [conn EXCEPT ![c] = "closed"]
  /\ UNCHANGED <<oww_available, model, stream, running, clients, mainPc, reg,
                 loopPc, last_trigger_time, trig, tasks, unretrieved, clock,
                 captured, accepted, last_detection, followed, inbound>>
  /\ UNCHANGED hubertVars
  /\ UNCHANGED detectVars

\* mutant of register_client_finally: the client stays in the registry
register_client_finally_Keep(c) ==
  /\ reg[c] = "waiting"
  /\ conn[c] = "closed"
  /\ reg' = [reg EXCEPT ![c] = "done"]
  /\ UNCHANGED <<oww_available, model, stream, running, clients, mainPc,
                 conn, loopPc, last_trigger_time, trig, tasks, unretrieved,
                 clock, captured, accepted, last_detection, followed,
                 inbound>>
  /\ UNCHANGED hubertVars
  /\ UNCHANGED detectVars

\* wait_closed has returned: the finally block runs self.clients.remove
register_client_finally(c) ==
  /\ reg[c] = "waiting"
  /\ conn[c] = "closed"
  /\ IF c \in clients
     THEN clients' = clients \ {c} /\ reg' = [reg EXCEPT ![c] = "done"]
     ELSE clients' = clients /\ reg' = [reg EXCEPT ![c] = "KeyError"]
  /\ UNCHANGED <<oww_available, model, stream, running, mainPc, conn, loopPc,
                 last_trigger_time, trig, tasks, unretrieved, clock,
                 captured, accepted, last_detection, followed, inbound>>
  /\ UNCHANGED hubertVars
  /\ UNCHANGED detectVars

\* a client sends a message: register_client never reads the socket
ClientMessage(c) ==
  /\ conn[c] = "open"
  /\ inbound' = TRUE
  /\ UNCHANGED <<oww_available, model, stream, running, clients, mainPc,
                 conn, reg, loopPc, last_trigger_time, trig, tasks,
                 unretrieved, clock, captured, accepted, last_detection,
                 followed>>
  /\ UNCHANGED hubertVars
  /\ UNCHANGED detectVars

(* ------------------------------ audio_loop ---------------------------- *)
\* the detector reports a positive match: some persona's confidence is
\* above the threshold
Positive(outcome) ==
  /\ ~outcome.raises
  /\ \E k \in DOMAIN outcome.prediction : outcome.prediction[k] > Threshold

\* The scenario of the specification: confidence 0.9 for Leo at t = 0 s and
\* at t = 1 s, and confidence 0.9 for Virgo at t = 4 s (t counted from the
\* start of the process).
Scenario ==
  <<[prediction |-> [k \in {"hey_leo"} |-> 9], at |-> 0],
    [prediction |-> [k \in {"hey_leo"} |-> 9], at |-> 1],
    [prediction |-> [k \in {"hey_virgo"} |-> 9], at |-> 4]>>

\* `followed` counts the positive outputs of the detector while they are
\* exactly the first ones of Scenario; it is -1 once they are not
Follow(n, outcome) ==
  IF ~Positive(outcome) THEN n
  ELSE IF /\ n >= 0
          /\ n < Len(Scenario)
          /\ outcome.prediction = Scenario[n + 1].prediction
          /\ clock = UnixStart + Scenario[n + 1].at
       THEN n + 1
       ELSE -1

\* mutants of CooldownOver: the cooldown is over at 3.0 s sharp; the cooldown
\* lasts a second longer
CooldownOver_AtLeast(current_time, last) == current_time - last >= cooldown

CooldownOver_Longer(current_time, last) == current_time - last > cooldown + 1

\* `current_time - last_trigger_time > cooldown`
CooldownOver(current_time, last) == current_time - last > cooldown

\* mutant of LastTriggerAfter: the timestamp is updated only when there is a
\* client to deliver the trigger to
LastTriggerAfter_OnDelivery(fire, current_time, last) ==
  IF fire /\ clients # {} THEN current_time ELSE last

\* `last_trigger_time = current_time` when the trigger is accepted
LastTriggerAfter(fire, current_time, last) ==
  IF fire THEN current_time ELSE last

\* LoopBody without the `except Exception` of the while body: an error of
\* stream.read leaves the loop
LoopBody_NoExcept(last) ==
  IF stream = None
  THEN /\ loopPc' = "sleep"
       /\ last_trigger_time' = last
       /\ UNCHANGED <<trig, tasks, captured, accepted, last_detection,
                      followed, clients>>
  ELSE \E readOut \in Frames \cup {"error"} :
    IF readOut = "error"
    THEN /\ loopPc' = "exited"
         /\ last_trigger_time' = last
         /\ UNCHANGED <<trig, tasks, captured, accepted, last_detection,
                      followed, clients>>
    ELSE \E predOut \in PredictOutcomes :
      LET persona == detect_wake_word(model, oww_available, predOut)
          fire == persona # None /\ CooldownOver(clock, last)
      IN  /\ clients # {} => Len(tasks) < MaxAudioTasks
          /\ captured' = captured \cup {readOut}
          /\ tasks' = IF clients # {}
                      THEN Append(tasks, [pc |-> "created",
                                          audio_data |-> readOut, call |-> {}])
                      ELSE tasks
          /\ last_detection' =
               IF persona # None
               THEN {[persona |-> persona, time |-> clock]}
               ELSE last_detection
          /\ accepted' =
               IF fire
               THEN Append(accepted, [persona |-> persona, time |-> clock])
               ELSE accepted
          /\ followed' = Follow(followed, predOut)
          /\ last_trigger_time' = LastTriggerAfter(fire, clock, last)
          /\ IF fire /\ clients # {}
             THEN \E call \in NewCalls(TriggerMessage(persona)) :
                    trig' = {call} /\ loopPc' = "broadcast"
             ELSE trig' = {} /\ loopPc' = "sleep"
          /\ UNCHANGED clients

\* LoopBody with the forwarding task spawned at the end of the pass, after
\* the trigger broadcast has returned
LoopBody_ForwardLast(last) ==
  IF stream = None
  THEN /\ loopPc' = "sleep"
       /\ last_trigger_time' = last
       /\ UNCHANGED <<trig, tasks, captured, accepted, last_detection,
                      followed, clients>>
  ELSE \E readOut \in Frames \cup {"error"} :
    IF readOut = "error"
    THEN /\ loopPc' = "sleep_err"
         /\ last_trigger_time' = last
         /\ UNCHANGED <<trig, tasks, captured, accepted, last_detection,
                      followed, clients>>
    ELSE \E predOut \in PredictOutcomes :
      LET persona == detect_wake_word(model, oww_available, predOut)
          fire == persona # None /\ CooldownOver(clock, last)
      IN  /\ clients # {} => Len(tasks) < MaxAudioTasks
          /\ captured' = captured \cup {readOut}
          /\ tasks' = IF clients # {} /\ ~fire
                      THEN Append(tasks, [pc |-> "created",
                                          audio_data |-> readOut, call |-> {}])
                      ELSE tasks
          /\ last_detection' =
               IF persona # None
               THEN {[persona |-> persona, time |-> clock]}
               ELSE last_detection
          /\ accepted' =
               IF fire
               THEN Append(accepted, [persona |-> persona, time |-> clock])
               ELSE accepted
          /\ followed' = Follow(followed, predOut)
          /\ last_trigger_time' = LastTriggerAfter(fire, clock, last)
          /\ IF fire /\ clients # {}
             THEN \E call \in NewCalls(TriggerMessage(persona)) :
                    trig' = {call} /\ loopPc' = "broadcast"
             ELSE trig' = {} /\ loopPc' = "sleep"
          /\ UNCHANGED clients

\* one pass of the while body, up to its first suspension; `last` is
\* last_trigger_time on entry
LoopBody(last) ==
  IF stream = None
  THEN /\ loopPc' = "sleep"
       /\ last_trigger_time' = last
       /\ UNCHANGED <<trig, tasks, captured, accepted, last_detection,
                      followed, clients>>
  ELSE \E readOut \in Frames \cup {"error"} :
    IF readOut = "error"
    THEN /\ loopPc' = "sleep_err"
         /\ last_trigger_time' = last
         /\ UNCHANGED <<trig, tasks, captured, accepted, last_detection,
                      followed, clients>>
    ELSE \E predOut \in PredictOutcomes :
      LET persona == detect_wake_word(model, oww_available, predOut)
          fire == persona # None /\ CooldownOver(clock, last)
      IN  /\ clients # {} => Len(tasks) < MaxAudioTasks
          /\ captured' = captured \cup {readOut}
          /\ tasks' = IF clients # {}
                      THEN Append(tasks, [pc |-> "created",
                                          audio_data |-> readOut, call |-> {}])
                      ELSE tasks
          /\ last_detection' =
               IF persona # None
               THEN {[persona |-> persona, time |-> clock]}
               ELSE last_detection
          /\ accepted' =
               IF fire
               THEN Append(accepted, [persona |-> persona, time |-> clock])
               ELSE accepted
          /\ followed' = Follow(followed, predOut)
          /\ last_trigger_time' = LastTriggerAfter(fire, clock, last)
          /\ IF fire /\ clients # {}
             THEN \E call \in NewCalls(TriggerMessage(persona)) :
                    trig' = {call} /\ loopPc' = "broadcast"
             ELSE trig' = {} /\ loopPc' = "sleep"
          /\ UNCHANGED clients

\* mutant of audio_loop: last_trigger_time starts at the time the loop starts
audio_loop_StartsCooling ==
  /\ loopPc \in {"created", "sleep", "sleep_err"}
  /\ IF ~running
     THEN /\ loopPc' = "exited"
          /\ UNCHANGED <<last_trigger_time, trig, tasks, captured, accepted,
                         last_detection, followed, clients>>
     ELSE LoopBody(IF loopPc = "created" THEN clock ELSE last_trigger_time)
  /\ UNCHANGED <<oww_available, model, stream, running, mainPc, conn, reg,
                 unretrieved, clock, inbound>>
  /\ UNCHANGED hubertVars
  /\ UNCHANGED detectVars

\* mutant of audio_loop: the flag is tested at entry only (`while True`)
audio_loop_WhileTrue ==
  /\ loopPc \in {"created", "sleep", "sleep_err"}
  /\ IF ~running /\ loopPc = "created"
     THEN /\ loopPc' = "exited"
          /\ UNCHANGED <<last_trigger_time, trig, tasks, captured, accepted,
                         last_detection, followed, clients>>
     ELSE LoopBody(IF loopPc = "created" THEN 0 ELSE last_trigger_time)
  /\ UNCHANGED <<oww_available, model, stream, running, mainPc, conn, reg,
                 unretrieved, clock, inbound>>
  /\ UNCHANGED hubertVars
  /\ UNCHANGED detectVars

\* the audio_loop task runs: from its creation or from a sleep to the next await
audio_loop ==
  /\ loopPc \in {"created", "sleep", "sleep_err"}
  /\ IF ~running
     THEN /\ loopPc' = "exited"
          /\ UNCHANGED <<last_trigger_time, trig, tasks, captured, accepted,
                         last_detection, followed, clients>>
     ELSE LoopBody(IF loopPc = "created" THEN 0 ELSE last_trigger_time)
  /\ UNCHANGED <<oww_available, model, stream, running, mainPc, conn, reg,
                 unretrieved, clock, inbound>>
  /\ UNCHANGED hubertVars
  /\ UNCHANGED detectVars

\* broadcast(): the awaited send of the trigger message completes
broadcast ==
  /\ loopPc = "broadcast"
  /\ \E call \in trig : \E r \in Advance(call) :
       /\ trig' = r.call
       /\ clients' = r.clients
       /\ loopPc' = CASE r.end = "next" -> "broadcast"
                      [] r.end = "done" -> "sleep"
                      [] r.end = "raised" -> "sleep_err"
  /\ UNCHANGED <<oww_available, model, stream, running, mainPc, conn, reg,
                 last_trigger_time, tasks, unretrieved, clock, captured,
                 accepted, last_detection, followed, inbound>>
  /\ UNCHANGED hubertVars
  /\ UNCHANGED detectVars

(* ---------------------------- broadcast_audio ------------------------- *)
\* a detached broadcast_audio task runs for the first time
broadcast_audio_start(i) ==
  /\ i \in 1..Len(tasks)
  /\ tasks[i].pc = "created"
  /\ IF clients = {}
     THEN tasks' = RemoveAt(tasks, i)
     ELSE \E call \in NewCalls(AudioMessage(tasks[i].audio_data)) :
            tasks' = [tasks EXCEPT ![i] = [@ EXCEPT !.pc = "send",
                                                    !.call = {call}]]
  /\ UNCHANGED <<oww_available, model, stream, running, clients, mainPc,
                 conn, reg, loopPc, last_trigger_time, trig, unretrieved,
                 clock, captured, accepted, last_detection, followed,
                 inbound>>
  /\ UNCHANGED hubertVars
  /\ UNCHANGED detectVars

\* the awaited send of a detached broadcast_audio task completes
broadcast_audio(i) ==
  /\ i \in 1..Len(tasks)
  /\ tasks[i].pc = "send"
  /\ \E call \in tasks[i].call : \E r \in Advance(call) :
       /\ clients' = r.clients
       /\ tasks' = IF r.end = "next"
                   THEN [tasks EXCEPT ![i] = [@ EXCEPT !.call = r.call]]
                   ELSE RemoveAt(tasks, i)
       /\ unretrieved' = (unretrieved \/ r.end = "raised")
  /\ UNCHANGED <<oww_available, model, stream, running, mainPc, conn, reg,
                 loopPc, last_trigger_time, trig, clock, captured, accepted,
                 last_detection, followed, inbound>>
  /\ UNCHANGED hubertVars
  /\ UNCHANGED detectVars

(* -------------------------------- clock ------------------------------- *)
Tick(maxElapsed) ==
  /\ clock < UnixStart + maxElapsed
  /\ clock' = clock + 1
  /\ UNCHANGED <<oww_available, model, stream, running, clients, mainPc,
                 conn, reg, loopPc, last_trigger_time, trig, tasks,
                 unretrieved, captured, accepted, last_detection, followed,
                 inbound>>
  /\ UNCHANGED hubertVars
  /\ UNCHANGED detectVars

\* the clock of a run that started at the epoch
TickEpoch ==
  /\ clock < EpochElapsed
  /\ clock' = clock + 1
  /\ UNCHANGED <<oww_available, model, stream, running, clients, mainPc,
                 conn, reg, loopPc, last_trigger_time, trig, tasks,
                 unretrieved, captured, accepted, last_detection, followed,
                 inbound>>
  /\ UNCHANGED hubertVars
  /\ UNCHANGED detectVars

(* ------------------- HubertLlamaService.handle_client ----------------- *)
\* the texts a client can send: not JSON, a JSON array, or a JSON object with
\* or without a "type" and an "audio_path"
TypeValues == {"ping", "transcribe", "load_models", "bogus"}
PathValues == {"", "a.wav", "gone.wav"}
ExistingFiles == {"a.wav"}           \* the paths os.path.exists accepts

ObjectFields ==
  {<<>>}
  \cup {("type" :> t) : t \in TypeValues}
  \cup {("audio_path" :> a) : a \in PathValues}
  \cup {("type" :> t) @@ ("audio_path" :> a) :
          t \in TypeValues, a \in PathValues}

Messages ==
  {[wellformed |-> FALSE, shape |-> "text", fields |-> <<>>],
   [wellformed |-> TRUE, shape |-> "array", fields |-> <<>>]}
  \cup {[wellformed |-> TRUE, shape |-> "object", fields |-> f] :
          f \in ObjectFields}

\* json.loads: JSONDecodeError on a text that is not JSON, else the value
json_loads(message) ==
  [raises |-> ~message.wellformed,
   value |-> [shape |-> message.shape, fields |-> message.fields]]

Reply(type, detail) == [type |-> type, detail |-> detail]

\* load_models; loadOk: whether loading the models works
load_models(loaded, loadOk) ==
  IF loaded THEN [ret |-> TRUE, loaded |-> TRUE]
  ELSE IF loadOk THEN [ret |-> TRUE, loaded |-> TRUE]
  ELSE [ret |-> FALSE, loaded |-> FALSE]

\* transcribe_and_understand; inferOk: whether encoding and generation work
\* (they cannot when the models are not loaded)
transcribe_and_understand(loaded, loadOk, inferOk) ==
  LET nowLoaded == IF ~loaded THEN load_models(loaded, loadOk).loaded
                   ELSE loaded
  IN  [success |-> nowLoaded /\ inferOk, loaded |-> nowLoaded]

\* handle_message without its `except Exception` clause: the AttributeError
\* of data.get on a JSON value that is not an object leaves the handler
handle_message_NoExcept(message, loaded, loadOk, inferOk) ==
  LET parsed == json_loads(message)
      data == parsed.value.fields
      msg_type == Get(data, "type", None)
      audio_path == Get(data, "audio_path", None)
  IN  IF parsed.raises
      THEN [reply |-> Reply("error", "Invalid JSON"), loaded |-> loaded]
      ELSE IF parsed.value.shape # "object"
      THEN [reply |-> Reply("raise", "exception"), loaded |-> loaded]
      ELSE IF msg_type = "ping"
      THEN [reply |-> Reply("pong", ""), loaded |-> loaded]
      ELSE IF msg_type = "transcribe"
      THEN IF audio_path \in {None, ""} \/ audio_path \notin ExistingFiles
           THEN [reply |-> Reply("error", "Audio file not found"),
                 loaded |-> loaded]
           ELSE LET r == transcribe_and_understand(loaded, loadOk, inferOk)
                IN  [reply |-> Reply("result", IF r.success THEN "success"
                                               ELSE "failure"),
                     loaded |-> r.loaded]
      ELSE IF msg_type = "load_models"
      THEN LET r == load_models(loaded, loadOk)
           IN  [reply |-> Reply("models_loaded", IF r.ret THEN "success"
                                                 ELSE "failure"),
                loaded |-> r.loaded]
      ELSE [reply |-> Reply("error", "Unknown message type"),
            loaded |-> loaded]

\* handle_message without the os.path.exists test: a transcribe whose
\* audio_path names no file is processed all the same
handle_message_NoExistsCheck(message, loaded, loadOk, inferOk) ==
  LET parsed == json_loads(message)
      data == parsed.value.fields
      msg_type == Get(data, "type", None)
      audio_path == Get(data, "audio_path", None)
  IN  IF parsed.raises
      THEN [reply |-> Reply("error", "Invalid JSON"), loaded |-> loaded]
      ELSE IF parsed.value.shape # "object"
      THEN \* data.get raises AttributeError: except Exception
           [reply |-> Reply("error", "exception"), loaded |-> loaded]
      ELSE IF msg_type = "ping"
      THEN [reply |-> Reply("pong", ""), loaded |-> loaded]
      ELSE IF msg_type = "transcribe"
      THEN IF audio_path \in {None, ""}
           THEN [reply |-> Reply("error", "Audio file not found"),
                 loaded |-> loaded]
           ELSE LET r == transcribe_and_understand(loaded, loadOk, inferOk)
                IN  [reply |-> Reply("result", IF r.success THEN "success"
                                               ELSE "failure"),
                     loaded |-> r.loaded]
      ELSE IF msg_type = "load_models"
      THEN LET r == load_models(loaded, loadOk)
           IN  [reply |-> Reply("models_loaded", IF r.ret THEN "success"
                                                 ELSE "failure"),
                loaded |-> r.loaded]
      ELSE [reply |-> Reply("error", "Unknown message type"),
            loaded |-> loaded]

\* the body of `async for message in websocket` up to the send it awaits:
\* the reply, and models_loaded afterwards
handle_message(message, loaded, loadOk, inferOk) ==
  LET parsed == json_loads(message)
      data == parsed.value.fields
      msg_type == Get(data, "type", None)
      audio_path == Get(data, "audio_path", None)
  IN  IF parsed.raises
      THEN [reply |-> Reply("error", "Invalid JSON"), loaded |-> loaded]
      ELSE IF parsed.value.shape # "object"
      THEN \* data.get raises AttributeError: except Exception
           [reply |-> Reply("error", "exception"), loaded |-> loaded]
      ELSE IF msg_type = "ping"
      THEN [reply |-> Reply("pong", ""), loaded |-> loaded]
      ELSE IF msg_type = "transcribe"
      THEN IF audio_path \in {None, ""} \/ audio_path \notin ExistingFiles
           THEN [reply |-> Reply("error", "Audio file not found"),
                 loaded |-> loaded]
           ELSE LET r == transcribe_and_understand(loaded, loadOk, inferOk)
                IN  [reply |-> Reply("result", IF r.success THEN "success"
                                               ELSE "failure"),
                     loaded |-> r.loaded]
      ELSE IF msg_type = "load_models"
      THEN LET r == load_models(loaded, loadOk)
           IN  [reply |-> Reply("models_loaded", IF r.ret THEN "success"
                                                 ELSE "failure"),
                loaded |-> r.loaded]
      ELSE [reply |-> Reply("error", "Unknown message type"),
            loaded |-> loaded]

\* a client connects: handle_client adds it and waits for a message
handle_client_start ==
  /\ h_conn = "new"
  /\ h_conn' = "open"
  /\ h_clients' = h_clients \cup {1}
  /\ h_pc' = "recv"
  /\ UNCHANGED <<models_loaded, h_reply, h_log>>
  /\ UNCHANGED wakeVars
  /\ UNCHANGED detectVars

\* a message arrives and is handled up to the send of its reply; an exception
\* that leaves the inner try ends the handler, and the server closes the
\* connection
handle_client ==
  /\ h_pc = "recv"
  /\ h_conn = "open"
  /\ Len(h_log) < MaxMessages
  /\ \E message \in Messages, loadOk \in BOOLEAN, inferOk \in BOOLEAN :
       LET r == handle_message(message, models_loaded, loadOk, inferOk)
       IN  /\ models_loaded' = r.loaded
           /\ h_log' = Append(h_log, [request |-> message, replies |-> <<>>])
           /\ IF r.reply.type = "raise"
              THEN /\ h_pc' = "exited"
                   /\ h_conn' = "server_closed"
                   /\ h_clients' = h_clients \ {1}
                   /\ h_reply' = {}
              ELSE /\ h_pc' = "send"
                   /\ h_reply' = {r.reply}
                   /\ UNCHANGED <<h_conn, h_clients>>
  /\ UNCHANGED wakeVars
  /\ UNCHANGED detectVars

\* the awaited send of the reply completes; on a closed connection it raises
\* ConnectionClosed, the error reply of `except Exception` raises it again,
\* and the handler ends in its finally block
handle_client_send ==
  /\ h_pc = "send"
  /\ IF h_conn = "open"
     THEN /\ h_log' = [h_log EXCEPT ![Len(h_log)].replies =
                                      @ \o SetToSeq(h_reply)]
          /\ h_pc' = "recv"
          /\ UNCHANGED h_clients
     ELSE /\ h_pc' = "exited"
          /\ h_clients' = h_clients \ {1}
          /\ UNCHANGED h_log
  /\ h_reply' = {}
  /\ UNCHANGED <<models_loaded, h_conn>>
  /\ UNCHANGED wakeVars
  /\ UNCHANGED detectVars

\* the iteration over the websocket ends because the connection has closed
handle_client_finally ==
  /\ h_pc = "recv"
  /\ h_conn = "peer_closed"
  /\ h_pc' = "exited"
  /\ h_clients' = h_clients \ {1}
  /\ UNCHANGED <<models_loaded, h_conn, h_reply, h_log>>
  /\ UNCHANGED wakeVars
  /\ UNCHANGED detectVars

\* the client closes the connection
HubertPeerCloses ==
  /\ h_conn = "open"
  /\ h_conn' = "peer_closed"
  /\ UNCHANGED <<models_loaded, h_clients, h_pc, h_reply, h_log>>
  /\ UNCHANGED wakeVars
  /\ UNCHANGED detectVars

(* --------------------- detect_wake_word on its own -------------------- *)
DetectOutcomes ==
  {[raises |-> TRUE, prediction |-> <<>>]}
  \cup {[raises |-> FALSE, prediction |-> p] :
          p \in UNION {[K -> ConfLevels] : K \in SUBSET DetectKeys}}

\* detect_wake_word is called on a frame for which predict does `outcome`
Detect ==
  /\ \E outcome \in DetectOutcomes :
       /\ det_input' = {outcome}
       /\ det_result' = detect_wake_word(model, oww_available, outcome)
  /\ UNCHANGED wakeVars
  /\ UNCHANGED hubertVars

(* --------------------------- specifications --------------------------- *)
\* the wake-word service
Next ==
  \/ MainStart
  \/ stop
  \/ \E c \in 1..MaxClients : register_client(c)
  \/ \E c \in Conns : ConnectionCloses(c)
  \/ \E c \in Conns : register_client_finally(c)
  \/ \E c \in Conns : ClientMessage(c)
  \/ audio_loop
  \/ broadcast
  \/ \E i \in 1..MaxAudioTasks : broadcast_audio_start(i)
  \/ \E i \in 1..MaxAudioTasks : broadcast_audio(i)
  \/ Tick(MaxElapsed)

Spec == Init /\ [][Next]_vars

\* the same service over a longer time and with fewer connections
NextCooldown ==
  \/ MainStart
  \/ stop
  \/ \E c \in 1..CooldownClients : register_client(c)
  \/ \E c \in Conns : ConnectionCloses(c)
  \/ \E c \in Conns : register_client_finally(c)
  \/ \E c \in Conns : ClientMessage(c)
  \/ audio_loop
  \/ broadcast
  \/ \E i \in 1..MaxAudioTasks : broadcast_audio_start(i)
  \/ \E i \in 1..MaxAudioTasks : broadcast_audio(i)
  \/ Tick(CooldownElapsed)

SpecCooldown == Init /\ [][NextCooldown]_vars

\* the wake-word service with the clock at the epoch when it starts
NextEpoch ==
  \/ MainStart
  \/ stop
  \/ \E c \in 1..CooldownClients : register_client(c)
  \/ \E c \in Conns : ConnectionCloses(c)
  \/ \E c \in Conns : register_client_finally(c)
  \/ \E c \in Conns : ClientMessage(c)
  \/ audio_loop
  \/ broadcast
  \/ \E i \in 1..MaxAudioTasks : broadcast_audio_start(i)
  \/ \E i \in 1..MaxAudioTasks : broadcast_audio(i)
  \/ TickEpoch

SpecEpoch == InitEpoch /\ [][NextEpoch]_vars

\* the wake-word service on a fair event loop: a task that is ready to run
\* runs (asyncio.sleep returns), and an awaited send of the trigger
\* broadcast completes or fails
SpecFair ==
  /\ Init
  /\ [][Next]_vars
  /\ WF_vars(audio_loop)
  /\ WF_vars(broadcast)

\* the speech-understanding service, one connection
NextHubert ==
  \/ handle_client_start
  \/ handle_client
  \/ handle_client_send
  \/ handle_client_finally
  \/ HubertPeerCloses

SpecHubert == Init /\ [][NextHubert]_vars

\* detect_wake_word over every detector output
NextDetect == Detect

SpecDetect == Init /\ [][NextDetect]_vars

(* ------------------------------- claims -------------------------------- *)
Last(s) == s[Len(s)]

Range(s) == {s[i] : i \in 1..Len(s)}

\* the broadcast_audio calls suspended in a send
AudioCalls == UNION {tasks[i].call : i \in 1..Len(tasks)}

\* C1: any two triggers handed to broadcast() were accepted more than the
\* cooldown apart, whatever their personas, and the trigger message being
\* sent is the one accepted last.
C1_CooldownIsGlobal ==
  /\ \A i, j \in 1..Len(accepted) :
       i < j => accepted[j].time - accepted[i].time > cooldown
  /\ \A call \in trig :
       /\ accepted # <<>>
       /\ call.msg = TriggerMessage(Last(accepted).persona)

\* two triggers for different personas have been broadcast, and a detection
\* after the second one was suppressed
C1_Witness ==
  /\ Len(accepted) = 2
  /\ accepted[1].persona # accepted[2].persona
  /\ \E d \in last_detection : d # Last(accepted)

\* C4: a positive detection more than the cooldown after the last accepted
\* trigger is handed to broadcast(), whatever its persona; and when the
\* detector follows Scenario (Leo at 0 s, Leo at 1 s, Virgo at 4 s) the
\* triggers broadcast are exactly Leo at 0 s and Virgo at 4 s.
C4_LateDetectionIsBroadcast ==
  /\ \A d \in last_detection :
       \/ accepted = <<>>
       \/ Last(accepted) = d
       \/ d.time - Last(accepted).time <= cooldown
  /\ followed = Len(Scenario) =>
       accepted = <<[persona |-> "Leo", time |-> UnixStart],
                    [persona |-> "Virgo", time |-> UnixStart + 4]>>

\* the detector has followed the whole scenario
C4_Witness == followed = Len(Scenario)

\* C5: as long as the detector has reported no positive match (it may have
\* raised, or be unavailable), no trigger has been handed to broadcast() and
\* no text message is being sent to any client.
C5_NoDetectionNoTrigger ==
  followed = 0 =>
    /\ accepted = <<>>
    /\ trig = {}
    /\ \A call \in AudioCalls : call.msg.kind # "text"

\* frames have been read and forwarded to a client, none with a positive match
C5_Witness ==
  /\ followed = 0
  /\ captured # {}
  /\ AudioCalls # {}

(* steps of the fan-out calls, as seen from one state to the next *)
\* the broadcast() call of audio_loop ends in this step
TrigEnds == trig # {} /\ trig' = {}

\* the broadcast_audio task i ends in this step
AudioEnds(i) ==
  /\ i \in 1..Len(tasks)
  /\ tasks[i].pc = "send"
  /\ tasks' = RemoveAt(tasks, i)

\* the fan-out calls that create their iterator in this step
StartedCalls ==
  (IF trig = {} THEN trig' ELSE {})
  \cup UNION {tasks'[i].call :
               i \in {j \in 1..Len(tasks) :
                        /\ Len(tasks') = Len(tasks)
                        /\ tasks[j].pc = "created"
                        /\ tasks'[j].pc = "send"}}

\* the clients to which a send begins in this step
SendAttempts ==
  (IF trig' # trig THEN {call.cur : call \in trig'} ELSE {})
  \cup {call.cur : call \in UNION {tasks'[j].call :
                     j \in {k \in 1..Len(tasks') :
                              tasks'[k] \notin Range(tasks)}}}

\* a fan-out call stays suspended in its send over this step
StaysSuspended ==
  \/ trig # {} /\ trig' = trig
  \/ \E i \in 1..Len(tasks) :
       /\ tasks[i].pc = "send"
       /\ tasks[i] \in Range(tasks')

\* the call found a client A whose send has failed and another client B
FailedAmongOthers(call) ==
  /\ DisconnectedAfter(call) # {}
  /\ call.iterSet \ DisconnectedAfter(call) # {}

\* such a call ends with every client it found attempted and the failed
\* clients out of the registry
EndsWell(call) ==
  FailedAmongOthers(call) =>
    /\ call.iterSet \subseteq call.visited
    /\ DisconnectedAfter(call) \cap clients' = {}

\* C2: a send failure in a broadcast or broadcast_audio call does not abort
\* the call: when the call ends every client it found in the registry has
\* been sent to and the failed clients are out of the registry.
C2_FailureDoesNotAbort ==
  [][/\ TrigEnds =>
          /\ \A call \in trig : EndsWell(call)
          /\ (\E call \in trig : FailedAmongOthers(call))
                => loopPc' # "sleep_err"
     /\ \A i \in 1..Len(tasks) : AudioEnds(i) =>
          /\ \A call \in tasks[i].call : EndsWell(call)
          /\ (\E call \in tasks[i].call : FailedAmongOthers(call))
                => unretrieved' = unretrieved]_vars

\* C3: the registry does not change while a broadcast or broadcast_audio call
\* is suspended in a send in the middle of its iteration.
C3_NoMutationWhileIterating ==
  [][clients' # clients => ~StaysSuspended]_vars

C7_RegistryHoldsOpenConnections ==
  /\ [](\A c \in clients : conn[c] = "open")
  /\ [][/\ TrigEnds =>
            \A call \in trig : DisconnectedAfter(call) \cap clients' = {}
        /\ \A i \in 1..Len(tasks) : AudioEnds(i) =>
            \A call \in tasks[i].call :
              DisconnectedAfter(call) \cap clients' = {}]_vars

\* C8: the capture-and-detect loop is never suspended in a send to a client.
C8_LoopNeverWaitsForClient == loopPc # "broadcast"

\* the texts and frames the service sends
WellFormed(msg) ==
  \/ /\ msg.kind = "text"
     /\ msg.body.triggered = TRUE
     /\ msg.body.persona \in Range(PERSONAS)
  \/ /\ msg.kind = "binary"
     /\ msg.body \in captured

\* C10: every message being sent is a trigger message with triggered = true
\* and one of the 12 personas, or a binary frame read from the capture
\* stream; a message from a client changes nothing in the service.
C10_SubscribeOnly ==
  /\ [](/\ \A call \in trig : WellFormed(call.msg)
        /\ \A call \in AudioCalls : WellFormed(call.msg))
  /\ [][inbound' # inbound =>
          UNCHANGED <<oww_available, model, stream, running, clients, conn,
                      reg, loopPc, last_trigger_time, trig, tasks,
                      unretrieved>>]_vars

\* a trigger message and a frame are being sent, and a client has sent a
\* message of its own
C10_Witness ==
  /\ trig # {}
  /\ AudioCalls # {}
  /\ inbound

(* ------------------- speech-understanding handle_client ---------------- *)
\* a text that is not JSON, a JSON value that is not an object, an object
\* whose type is missing or unknown, or a transcribe without audio_path
Malformed(m) ==
  \/ ~m.wellformed
  \/ m.shape # "object"
  \/ "type" \notin DOMAIN m.fields
  \/ m.fields["type"] \notin {"ping", "transcribe", "load_models"}
  \/ (m.fields["type"] = "transcribe" /\ "audio_path" \notin DOMAIN m.fields)

\* C9: a malformed message is answered with exactly one reply, of type
\* "error"; the server never closes the connection over it, and the handler
\* goes back to receiving the next message. The reply is missing only while
\* its send is pending or when the client itself has closed the connection.
C9_MalformedGetsOneError ==
  /\ h_conn # "server_closed"
  /\ h_conn = "open" => h_pc \in {"recv", "send"}
  /\ (h_pc = "send" /\ Malformed(Last(h_log).request))
       => (h_reply # {} /\ \A r \in h_reply : r.type = "error")
  /\ \A i \in 1..Len(h_log) :
       Malformed(h_log[i].request) =>
         \/ /\ Len(h_log[i].replies) = 1
            /\ h_log[i].replies[1].type = "error"
         \/ /\ h_log[i].replies = <<>>
            /\ i = Len(h_log)
            /\ (h_pc = "send" \/ h_conn = "peer_closed")

\* a JSON array has been answered with one error reply, and the ping that
\* followed it on the same, still open, connection with a pong
C9_Witness ==
  /\ Len(h_log) = 2
  /\ h_log[1].request.wellformed
  /\ h_log[1].request.shape = "array"
  /\ Len(h_log[1].replies) = 1
  /\ h_log[1].replies[1].type = "error"
  /\ Len(h_log[2].replies) = 1
  /\ h_log[2].replies[1].type = "pong"
  /\ h_conn = "open"
  /\ h_pc = "recv"

\* the reply type the request fixes
ExpectedType(m) ==
  IF ~m.wellformed \/ m.shape # "object" THEN "error"
  ELSE LET type == Get(m.fields, "type", None)
           audio_path == Get(m.fields, "audio_path", None)
       IN  CASE type = "ping" -> "pong"
             [] type = "load_models" -> "models_loaded"
             [] type = "transcribe" ->
                  IF audio_path \in ExistingFiles THEN "result" ELSE "error"
             [] OTHER -> "error"

\* C11: every received message gets exactly one reply, of the type its
\* request fixes, and the replies go out in the order of the requests: a
\* request is received only when every earlier one has its reply.  The reply
\* of the latest request is missing only while its send is pending or when
\* the client has closed the connection.
C11_OneReplyPerRequest ==
  /\ \A i \in 1..Len(h_log) :
       /\ Len(h_log[i].replies) <= 1
       /\ \A j \in 1..Len(h_log[i].replies) :
            h_log[i].replies[j].type = ExpectedType(h_log[i].request)
       /\ h_log[i].replies = <<>> =>
            /\ i = Len(h_log)
            /\ (h_pc = "send" \/ h_conn = "peer_closed")
  /\ \A r \in h_reply :
       /\ h_pc = "send"
       /\ r.type = ExpectedType(Last(h_log).request)

\* a transcribe of an existing file has got its result, and the ping after
\* it its pong
C11_Witness ==
  /\ Len(h_log) = 2
  /\ Get(h_log[1].request.fields, "type", None) = "transcribe"
  /\ Get(h_log[1].request.fields, "audio_path", None) \in ExistingFiles
  /\ Len(h_log[1].replies) = 1
  /\ h_log[1].replies[1].type = "result"
  /\ Get(h_log[2].request.fields, "type", None) = "ping"
  /\ Len(h_log[2].replies) = 1
  /\ h_log[2].replies[1].type = "pong"

(* --------------------------- audio forwarding -------------------------- *)
\* C12: a client whose send of a frame does not complete delays no other
\* client: while a forwarding task is suspended in the send to one client,
\* no other client of the registry is still waiting behind it for the frame.
C12_SlowClientDelaysNoOther ==
  \A call \in AudioCalls :
    \A c \in call.iterSet \ {call.cur} : c \in call.visited

(* ------------------------- capture loop lifecycle ---------------------- *)
\* stop() has been called: the flag is down on a device that was acquired
StopIssued == ~running /\ stream # None

\* C13: the running flag goes up only at start, with the capture device
\* acquired, and down only by stop; once down after the start it stays down.
\* When the device could not be acquired or the detector is unavailable the
\* flag stays down, no frame is ever read, audio_loop (if created) returns at
\* once, and the acquisition is not tried again.
C13_RunningStateMachine ==
  /\ [][running' # running =>
          \/ /\ ~running /\ running'
             /\ mainPc = "init" /\ mainPc' = "serving"
             /\ stream' = "open"
          \/ /\ running /\ ~running'
             /\ StopIssued']_vars
  /\ [][(mainPc = "serving" /\ ~running) => ~running']_vars
  /\ [][(mainPc = "serving" /\ stream = None) => stream' = None]_vars
  /\ [](mainPc = "serving" /\ stream = None =>
          /\ ~running
          /\ captured = {}
          /\ loopPc \in {"none", "created", "exited"}
          /\ (~oww_available => loopPc = "none"))

\* the device could not be acquired, and audio_loop has returned
C13_Witness ==
  /\ mainPc = "serving"
  /\ oww_available
  /\ stream = None
  /\ ~running
  /\ loopPc = "exited"
  /\ captured = {}

\* C15: stop tears the capture device down before it sets the running flag
\* to false: in the step that takes the flag down, no statement of stop
\* leaves the flag down on a device that is still open.
C15_TeardownBeforeFlag ==
  [][(running /\ ~running') =>
       \A tearOk \in BOOLEAN :
         LET steps == stop_steps(running, stream, tearOk)
         IN  Last(steps) = [running |-> running', stream |-> stream'] =>
               \A i \in 1..Len(steps) :
                 ~steps[i].running => steps[i].stream # "open"]_vars

\* C14: an error while reading, classifying or broadcasting for a frame
\* leaves the running flag as it is and does not end the loop: the loop ends
\* only with the flag down, and while the flag is up the step after the
\* error's sleep is another pass of the loop body, which reads the stream.
C14_ErrorDoesNotEndLoop ==
  [][/\ (loopPc # "sleep_err" /\ loopPc' = "sleep_err") => running' = running
     /\ (loopPc # "exited" /\ loopPc' = "exited") => ~running
     /\ (loopPc = "sleep_err" /\ running /\ loopPc' # loopPc) =>
          /\ loopPc' \in {"sleep", "broadcast"}
          /\ captured' # {}]_vars

\* the loop is in the sleep that follows an error, with the flag up, after
\* frames have been read and a trigger accepted
C14_Witness ==
  /\ loopPc = "sleep_err"
  /\ running
  /\ accepted # <<>>
  /\ trig = {}
  /\ captured # {}

\* C16: a loop that has started on an acquired device exits only after stop;
\* once stop has been called no frame is read, no task is spawned and no
\* trigger broadcast is begun; and on a fair event loop the loop then exits.
C16_LoopEndsOnlyAfterStop ==
  /\ [][(loopPc # "exited" /\ loopPc' = "exited") =>
          (stream = None \/ StopIssued)]_vars
  /\ [][StopIssued =>
          /\ captured' = captured
          /\ accepted' = accepted
          /\ Len(tasks') <= Len(tasks)
          /\ (trig = {} => trig' = {})]_vars
  /\ (StopIssued ~> loopPc = "exited")

\* stop has been called on a loop that had read frames, and the loop has
\* exited
C16_Witness ==
  /\ StopIssued
  /\ captured # {}
  /\ loopPc = "exited"

(* ---------------------------- detect_wake_word ------------------------- *)
\* the confidence the output gives the i-th persona is strictly above 0.5
Above(prediction, i) == Get(prediction, PhraseKey(i), 0) > Threshold

\* C17: for every detector output the result is the first persona, in the
\* order of PERSONAS, whose confidence is strictly above 0.5, and None when
\* there is none; a confidence of exactly 0.5 is no match.
C17_FirstPersonaAboveThreshold ==
  \A o \in det_input :
    (oww_available /\ ~o.raises) =>
      \/ /\ det_result = None
         /\ \A i \in 1..Len(PERSONAS) : ~Above(o.prediction, i)
      \/ \E i \in 1..Len(PERSONAS) :
           /\ det_result = PERSONAS[i]
           /\ Above(o.prediction, i)
           /\ \A j \in 1..(i - 1) : ~Above(o.prediction, j)

\* Aries at exactly 0.5 and Leo and Pisces both at 0.9: Leo is selected
C17_Witness ==
  /\ oww_available
  /\ det_result = "Leo"
  /\ \E o \in det_input :
       /\ ~o.raises
       /\ DOMAIN o.prediction = {"hey_aries", "hey_leo", "hey_pisces"}
       /\ o.prediction["hey_aries"] = 5
       /\ o.prediction["hey_leo"] = 9
       /\ o.prediction["hey_pisces"] = 9

(* ------------------------- order within one pass ----------------------- *)
LoopReady == loopPc \in {"created", "sleep", "sleep_err"}

\* a step of audio_loop in which a frame has been read
FrameRead ==
  /\ LoopReady
  /\ running
  /\ loopPc' \in {"sleep", "broadcast"}
  /\ \/ loopPc' # loopPc
     \/ captured' # captured
     \/ Len(tasks') > Len(tasks)
     \/ last_detection' # last_detection

\* C18: within one pass the order is frame read, spawn of the forwarding
\* task (exactly when the registry is not empty), detector call, trigger
\* broadcast (only when accepted).  A task is spawned only in a pass that has
\* read its frame, and whatever the detector then returns; a detection is
\* made only on a frame that was read; a trigger broadcast begins only on a
\* detection accepted in the same pass, with the frame's forwarding task
\* spawned and not yet run.
C18_OrderWithinPass ==
  [][/\ Len(tasks') > Len(tasks) =>
          /\ FrameRead
          /\ clients # {}
          /\ tasks' = Append(tasks, Last(tasks'))
          /\ Last(tasks').pc = "created"
          /\ Last(tasks').audio_data \in captured'
     /\ (FrameRead /\ clients # {}) => Len(tasks') = Len(tasks) + 1
     /\ (FrameRead /\ clients = {}) => tasks' = tasks
     /\ last_detection' # last_detection => FrameRead
     /\ accepted' # accepted =>
          /\ FrameRead
          /\ accepted' = Append(accepted, Last(accepted'))
          /\ last_detection' = {Last(accepted')}
     /\ (trig = {} /\ trig' # {}) =>
          /\ FrameRead
          /\ accepted' # accepted
          /\ \A call \in trig' :
               call.msg = TriggerMessage(Last(accepted').persona)
          /\ Len(tasks') = Len(tasks) + 1
          /\ Last(tasks').pc = "created"]_vars

\* a forwarding task is still alive although a later pass of the loop has
\* already run (no trigger was ever accepted, so the loop's error sleep
\* comes from a later read that failed)
C18_Witness ==
  /\ running
  /\ Len(tasks) = 1
  /\ tasks[1].pc = "send"
  /\ accepted = <<>>
  /\ loopPc = "sleep_err"

(* ------------------------------ model loading -------------------------- *)
\* a load_models request has been answered with success = false
LoadHasFailed ==
  \E i \in 1..Len(h_log) :
    /\ Get(h_log[i].request.fields, "type", None) = "load_models"
    /\ \E j \in 1..Len(h_log[i].replies) :
         /\ h_log[i].replies[j].type = "models_loaded"
         /\ h_log[i].replies[j].detail = "failure"

\* C19: after a load of the models has failed, handling a transcribe request
\* starts no other load: the request leaves models_loaded as it was.
C19_NoAutomaticReload ==
  [][(/\ LoadHasFailed
      /\ Len(h_log') = Len(h_log) + 1
      /\ Get(Last(h_log').request.fields, "type", None) = "transcribe")
       => models_loaded' = models_loaded]_vars

(* ----------------------------- registry removal ------------------------ *)
\* C20: the cleanup of a register_client task completes without raising,
\* also for a client that broadcast or broadcast_audio has removed before.
C20_CleanupNeverRaises ==
  \A c \in Conns : reg[c] # "KeyError"

(* ------------------------- last-trigger timestamp ---------------------- *)
\* C21: the timestamp is that of the latest accepted trigger as soon as the
\* trigger is accepted, also while its broadcast is still being sent, after
\* the broadcast has failed, and when there was no client to send it to; a
\* positive detection within the cooldown of it is not accepted; and the
\* timestamp never decreases.
C21_TimestampIndependentOfDelivery ==
  /\ [](accepted # <<>> => last_trigger_time = Last(accepted).time)
  /\ [][last_trigger_time' >= last_trigger_time]_vars
  /\ [][(accepted # <<>> /\ clock - Last(accepted).time <= cooldown)
          => accepted' = accepted]_vars

\* a trigger was accepted while no client had ever connected, and a positive
\* detection within the cooldown after it has been suppressed
C21_Witness ==
  /\ \A c \in Conns : conn[c] = "new"
  /\ Len(accepted) = 1
  /\ last_trigger_time = accepted[1].time
  /\ \E d \in last_detection :
       /\ d.time > accepted[1].time
       /\ d.time - accepted[1].time <= cooldown

(* --------------------------- the first detection ----------------------- *)
\* a positive detection is made in this step while no trigger has been
\* accepted yet
DetectionBeforeAnyTrigger ==
  /\ accepted = <<>>
  /\ last_detection' # last_detection

\* the detection of this step is accepted, and broadcast to the registry
AcceptedAndBroadcast ==
  /\ Len(accepted') = 1
  /\ last_detection' = {accepted'[1]}
  /\ last_trigger_time' = accepted'[1].time
  /\ clients # {} => trig' # {}

====
